---- MODULE Spec2Model ----
(***************************************************************************)
(* State-machine model of sketch.js: the p5.js host calls setup once, then *)
(* draw once per frame while the loop is running; mouseMoved and           *)
(* windowResized are callbacks the host runs between frames.               *)
(*                                                                         *)
(* Fixed-point units (JavaScript numbers are modelled as scaled integers): *)
(*   globalTime, emotionalIntensity   1/10000                              *)
(*   angles                           1/1000 rad                           *)
(*   sine / cosine / noise values     1/1000                               *)
(*   vector magnitudes, amplitudes    1/1000                               *)
(*   noise amount added to a pixel    1/100 of a channel step              *)
(***************************************************************************)
EXTENDS Integers, Sequences, FiniteSets

VARIABLES
  phase,              \* "load" before setup, "idle" between callbacks, "draw" inside draw()
  pc,                 \* position inside draw(): index of the next call in DrawOps (0 outside)
  frameCount,         \* p5 frameCount
  looping,            \* p5 loop flag, cleared by noLoop()
  width, height,      \* p5 canvas dimensions
  flowfield,          \* line 4
  globalTime,         \* line 6
  emotionalIntensity, \* line 7
  distortionField,    \* line 8
  baseDistortion,     \* local of drawFigure
  depth,              \* depth of the drawing-state stack (push/pop)
  log,                \* messages written with console.error
  npc,                \* position inside addNoiseToFigure (pixel-pass specification)
  nx, ny,             \* loop counters of addNoiseToFigure
  pixels,             \* p5 pixels[] array
  canvasPx            \* pixel content of the canvas itself

vars == <<phase, pc, frameCount, looping, width, height, flowfield, globalTime,
          emotionalIntensity, distortionField, baseDistortion, depth, log,
          npc, nx, ny, pixels, canvasPx>>

frameVars == <<phase, pc, frameCount, looping, width, height, flowfield, globalTime,
               emotionalIntensity, distortionField, baseDistortion, depth, log>>

noiseVars == <<npc, nx, ny, pixels, canvasPx>>

----
\* Bounds of the model

MaxFrame == 6
FrameHorizon == 2700
NoiseMaxPixels == 4

\* input samples: random() streams, pointer speeds (pixels), window sizes (pixels,
\* multiples of 5 so that 0.8 * size is a whole number), values of random(-6, 6)
\* (1/100), intensities for the pixel pass
Seeds == {11, 42}
Speeds == {0, 300, 5000}
WindowWidths == {500, 750, 1000}
WindowHeights == {500, 1000, 1500}
RandSamples == {-599, 50, 599}
IntensitySamples == {5000, 10000}

----
\* Numeric helpers

Min(a, b) == IF a < b THEN a ELSE b
Max(a, b) == IF a > b THEN a ELSE b

Pi == 3142
TwoPi == 6284

\* sin on [0, Pi] (Bhaskara's rational approximation), result in 1/1000
SinHalf(x) ==
  LET p == x * (Pi - x)
  IN  (16 * p) \div ((5 * Pi * Pi - 4 * p) \div 1000)

Sin(a) ==
  LET r == a % TwoPi
  IN  IF r <= Pi THEN SinHalf(r) ELSE 0 - SinHalf(r - Pi)

Cos(a) == Sin(a + Pi \div 2)

\* p5 map(n, start1, stop1, start2, stop2)
Map(n, s1, e1, s2, e2) == ((n - s1) * (e2 - s2)) \div (e1 - s1) + s2

\* p5 constrain(n, low, high)
Constrain(n, low, high) == Max(Min(n, high), low)

\* p5 ceil(a / b) for positive b
CeilDiv(a, b) == (a + b - 1) \div b

\* p5 random(lo, hi): the k-th sample of the stream chosen by seed
Random(seed, k, lo, hi) == lo + ((hi - lo) * ((seed * 7919 + k * 10473) % 1000)) \div 1000

\* p5 noise(x, y, z), a value in [0, 1)
Noise(xoff, yoff, zoff) == ((xoff * 31 + yoff * 17 + zoff * 7) * 13) % 1000

----
\* Vectors

ZeroVec == [x |-> 0, y |-> 0]

\* an empty slot of this.field; a cell holds a vector as magnitude and heading,
\* and `at` records the time argument of the update call that wrote it
UndefinedCell == [defined |-> FALSE, mag |-> 0, heading |-> 0, at |-> 0]

\* p5.Vector.fromAngle(angle): unit vector with the given heading
FromAngle(angle) == [defined |-> TRUE, mag |-> 1000, heading |-> angle, at |-> 0]

\* p5.Vector.mult(s)
Mult(v, s) == [v EXCEPT !.mag = (v.mag * s) \div 1000]

----
\* FlowField

Resolution == 20
ParticleSpeed == 150

UndefinedFlowField ==
  [defined |-> FALSE, resolution |-> 0, cols |-> 0, rows |-> 0,
   field |-> <<>>, particleSpeed |-> 0]

NewFlowField(resolution, w, h) ==
  LET cols == CeilDiv(w, resolution)
      rows == CeilDiv(h, resolution)
  IN  [defined |-> TRUE, resolution |-> resolution, cols |-> cols, rows |-> rows,
       field |-> [i \in 1 .. (cols * rows) |-> UndefinedCell],
       particleSpeed |-> ParticleSpeed]

\* The JavaScript array this.field, indices 0 .. length-1, is the sequence field
\* with element i at position i + 1.
\* Assignment to element i (the array grows, padded with empty slots, when i is
\* outside):
Store(f, i, v) ==
  IF i < Len(f) THEN [f EXCEPT ![i + 1] = v]
  ELSE [j \in 1 .. (i + 1) |-> IF j = i + 1 THEN v ELSE IF j <= Len(f) THEN f[j] ELSE UndefinedCell]

CellIndex_Transposed(x, y, cols) == x * cols + y

CellIndex(x, y, cols) == x + y * cols

FieldAngle(x, y, time) ==
  (Noise(x, y, (time * 15) \div 1000) * TwoPi * 2) \div 1000
    + (Sin((time * 8) \div 1000 + x * 100 + y * 100) * 300) \div 1000

FieldVector(ff, x, y, time) ==
  [Mult(FromAngle(FieldAngle(x, y, time)), ff.particleSpeed) EXCEPT !.at = time]

Update(ff, time) ==
  LET RECURSIVE Inner(_, _, _)
      Inner(f, x, y) ==
        IF y < ff.rows
          THEN LET g == Store(f, CellIndex(x, y, ff.cols), FieldVector(ff, x, y, time))
               IN  IF Len(g) >= 0 THEN Inner(g, x, y + 1) ELSE g
          ELSE f
      RECURSIVE Outer(_, _)
      Outer(f, x) ==
        IF x < ff.cols
          THEN LET g == Inner(f, x, 0)
               IN  IF Len(g) >= 0 THEN Outer(g, x + 1) ELSE g
          ELSE f
  IN  [ff EXCEPT !.field = Outer(ff.field, 0)]

----
\* Distortion field

DistortionCount == 8

DistortionEntry(seed, i) ==
  [frequency |-> Random(seed, 4 * i, 2000, 3000),
   amplitude |-> Random(seed, 4 * i + 1, 1500, 3000),
   phase     |-> Random(seed, 4 * i + 2, 0, TwoPi),
   speed     |-> Random(seed, 4 * i + 3, 500, 800)]

RECURSIVE PushEntries(_, _, _)
PushEntries_OffByOne(field, seed, i) ==
  IF i <= DistortionCount
    THEN PushEntries(Append(field, DistortionEntry(seed, i)), seed, i + 1)
    ELSE field

PushEntries(field, seed, i) ==
  IF i < DistortionCount
    THEN PushEntries(Append(field, DistortionEntry(seed, i)), seed, i + 1)
    ELSE field

RECURSIVE SumDistortion(_, _, _, _, _)
SumDistortion(ds, x, y, time, acc) ==
  IF ds = <<>> THEN acc
  ELSE LET d == Head(ds)
           t == (time * d.speed) \div 10000000
           dx == (Sin((x * d.frequency) \div 1000 + t + d.phase) * d.amplitude) \div 1000
           dy == (Cos((y * d.frequency) \div 1000 + t + d.phase + Pi \div 4) * d.amplitude) \div 1000
       IN  SumDistortion(Tail(ds), x, y, time, [x |-> acc.x + dx, y |-> acc.y + dy])

GetComplexDistortion(x, y, time) == SumDistortion(distortionField, x, y, time, ZeroVec)

----
\* The calls one frame makes, in program order, after draw() has updated the
\* time and the intensity (lines 145-158).  "update" is FlowField.update,
\* "distort" is getComplexDistortion; every other entry is a call into the
\* rendering backend.

drawBodyOps == <<"push", "shape", "pop">>

drawArmConnectionOps == <<"shape">>

drawArmOps == <<"push">> \o drawArmConnectionOps \o <<"shape", "pop">>

drawArmsOps == drawArmOps \o drawArmOps

drawHeadAuraOps == <<"ellipse", "ellipse", "ellipse">>

drawSkullShapeOps == <<"shape">>

drawMouthOps == <<"shape", "ellipse">>

drawEyeOps == <<"push", "translate", "ellipse", "ellipse", "ellipse", "pop">>

drawFacialFeaturesOps == drawEyeOps \o drawEyeOps \o drawMouthOps

drawHeadOps_NoPop ==
  <<"push", "translate">> \o drawHeadAuraOps \o drawSkullShapeOps \o drawFacialFeaturesOps

drawHeadOps ==
  <<"push", "translate">> \o drawHeadAuraOps \o drawSkullShapeOps \o drawFacialFeaturesOps
    \o <<"pop">>

drawFigureOps(isShadow) ==
  <<"distort">> \o drawBodyOps \o (IF isShadow THEN <<>> ELSE drawArmsOps \o drawHeadOps)

drawShadowLayerOps == <<"push", "translate">> \o drawFigureOps(TRUE) \o <<"pop">>

drawMainFigureOps == drawFigureOps(FALSE)

drawVignetteOps == <<"gradient">>

addNoiseToFigureOps == <<"pixels">>

addEmotionalGlowOps == <<"push", "blend", "rect", "pop">>

addAtmosphericEffectsOps == drawVignetteOps \o addNoiseToFigureOps \o addEmotionalGlowOps

DrawOps ==
  <<"background", "update", "translate">>
    \o drawShadowLayerOps \o drawMainFigureOps \o addAtmosphericEffectsOps

\* calls into the rendering backend, which may raise an exception
Throwable(op) == op \notin {"update", "distort"}

----
\* Program load (lines 4-8) and the host's initial state

Init ==
  /\ phase = "load"
  /\ pc = 0
  /\ frameCount = 0
  /\ looping = TRUE
  /\ width = 0
  /\ height = 0
  /\ flowfield = UndefinedFlowField
  /\ globalTime = 0
  /\ emotionalIntensity = 0
  /\ distortionField = <<>>
  /\ baseDistortion = ZeroVec
  /\ depth = 0
  /\ log = {}
  /\ npc = "off"
  /\ nx = 0
  /\ ny = 0
  /\ pixels = <<>>
  /\ canvasPx = <<>>

CanvasHeight == 800

CanvasWidth_Swapped == CanvasHeight

CanvasWidth == 600

\* setup(): seed selects the values random() returns; throws tells whether one of
\* the backend calls of lines 101-108 raises an exception
Setup(seed, throws) ==
  /\ phase = "load"
  /\ width' = CanvasWidth
  /\ height' = CanvasHeight
  /\ flowfield' = NewFlowField(Resolution, CanvasWidth, CanvasHeight)
  /\ distortionField' = PushEntries(distortionField, seed, 0)
  /\ IF throws
       THEN /\ log' = log \cup {"Setup failed:"}
            /\ looping' = FALSE
       ELSE UNCHANGED <<log, looping>>
  /\ phase' = "idle"
  /\ UNCHANGED <<pc, frameCount, globalTime, emotionalIntensity, baseDistortion, depth>>
  /\ UNCHANGED noiseVars

\* line 141
TimeOf(fc) == fc * 80

\* line 142
EmotionAt(time) == Map(Sin((time * 3) \div 100), -1000, 1000, 5000, 10000)

\* The host starts a frame (it runs the first frame after setup, and further
\* frames while the loop is on); draw() runs lines 133-142.  setup assigns
\* flowfield before any call that can raise, so the component check passes in
\* every reachable state.
DrawBegin_KeepsNudge ==
  /\ phase = "idle"
  /\ looping \/ frameCount = 0
  /\ frameCount < MaxFrame
  /\ frameCount' = frameCount + 1
  /\ IF ~flowfield.defined
       THEN /\ log' = log \cup {"Critical components not initialized"}
            /\ looping' = FALSE
            /\ UNCHANGED <<phase, pc, globalTime, emotionalIntensity>>
       ELSE /\ globalTime' = TimeOf(frameCount')
            /\ emotionalIntensity' = Max(emotionalIntensity, EmotionAt(globalTime'))
            /\ phase' = "draw"
            /\ pc' = 1
            /\ UNCHANGED <<log, looping>>
  /\ UNCHANGED <<width, height, flowfield, distortionField, baseDistortion, depth>>
  /\ UNCHANGED noiseVars

DrawBegin ==
  /\ phase = "idle"
  /\ looping \/ frameCount = 0
  /\ frameCount < MaxFrame
  /\ frameCount' = frameCount + 1
  /\ IF ~flowfield.defined
       THEN /\ log' = log \cup {"Critical components not initialized"}
            /\ looping' = FALSE
            /\ UNCHANGED <<phase, pc, globalTime, emotionalIntensity>>
       ELSE /\ globalTime' = TimeOf(frameCount')
            /\ emotionalIntensity' = EmotionAt(globalTime')
            /\ phase' = "draw"
            /\ pc' = 1
            /\ UNCHANGED <<log, looping>>
  /\ UNCHANGED <<width, height, flowfield, distortionField, baseDistortion, depth>>
  /\ UNCHANGED noiseVars

\* the next call of the frame returns normally; after the last one draw() returns
DrawStep ==
  /\ phase = "draw"
  /\ LET op == DrawOps[pc] IN
       /\ depth' = CASE op = "push" -> depth + 1
                     [] op = "pop" -> depth - 1
                     [] OTHER -> depth
       /\ flowfield' = IF op = "update" THEN Update(flowfield, globalTime) ELSE flowfield
       /\ baseDistortion' = IF op = "distort" THEN GetComplexDistortion(0, 0, globalTime)
                            ELSE IF pc = Len(DrawOps) THEN ZeroVec ELSE baseDistortion
  /\ IF pc = Len(DrawOps)
       THEN phase' = "idle" /\ pc' = 0
       ELSE phase' = "draw" /\ pc' = pc + 1
  /\ UNCHANGED <<frameCount, looping, width, height, globalTime, emotionalIntensity,
                 distortionField, log>>
  /\ UNCHANGED noiseVars

\* the next call of the frame raises an exception: the catch block of lines 160-163
DrawThrow_NoHalt ==
  /\ phase = "draw"
  /\ Throwable(DrawOps[pc])
  /\ log' = log \cup {"Draw cycle failed:"}
  /\ phase' = "idle"
  /\ pc' = 0
  /\ baseDistortion' = ZeroVec
  /\ UNCHANGED <<frameCount, looping, width, height, flowfield, globalTime,
                 emotionalIntensity, distortionField, depth>>
  /\ UNCHANGED noiseVars

DrawThrow ==
  /\ phase = "draw"
  /\ Throwable(DrawOps[pc])
  /\ log' = log \cup {"Draw cycle failed:"}
  /\ looping' = FALSE
  /\ phase' = "idle"
  /\ pc' = 0
  /\ baseDistortion' = ZeroVec
  /\ UNCHANGED <<frameCount, width, height, flowfield, globalTime, emotionalIntensity,
                 distortionField, depth>>
  /\ UNCHANGED noiseVars

\* mouseMoved(): speed is dist(mouseX, mouseY, pmouseX, pmouseY) in pixels
MouseMoved_NoClamp(speed) ==
  /\ phase = "idle"
  /\ emotionalIntensity' = emotionalIntensity + speed * 8
  /\ UNCHANGED <<phase, pc, frameCount, looping, width, height, flowfield, globalTime,
                 distortionField, baseDistortion, depth, log>>
  /\ UNCHANGED noiseVars

MouseMoved_Overwrites(speed) ==
  /\ phase = "idle"
  /\ emotionalIntensity' = Constrain(speed * 8, 5000, 10000)
  /\ UNCHANGED <<phase, pc, frameCount, looping, width, height, flowfield, globalTime,
                 distortionField, baseDistortion, depth, log>>
  /\ UNCHANGED noiseVars

MouseMoved(speed) ==
  /\ phase = "idle"
  /\ emotionalIntensity' = Constrain(emotionalIntensity + speed * 8, 5000, 10000)
  /\ UNCHANGED <<phase, pc, frameCount, looping, width, height, flowfield, globalTime,
                 distortionField, baseDistortion, depth, log>>
  /\ UNCHANGED noiseVars

ResizeLimitW == 600
ResizeLimitH == 800

\* min(windowDim * 0.8, limit)
ResizedDim_NoClamp(windowDim, limit) == (windowDim * 8) \div 10

ResizedDim(windowDim, limit) == Min((windowDim * 8) \div 10, limit)

\* windowResized(): resizeCanvas sets the canvas dimensions
WindowResized(windowWidth, windowHeight) ==
  /\ phase = "idle"
  /\ width' = ResizedDim(windowWidth, ResizeLimitW)
  /\ height' = ResizedDim(windowHeight, ResizeLimitH)
  /\ UNCHANGED <<phase, pc, frameCount, looping, flowfield, globalTime, emotionalIntensity,
                 distortionField, baseDistortion, depth, log>>
  /\ UNCHANGED noiseVars

Next ==
  \/ \E seed \in Seeds, throws \in BOOLEAN : Setup(seed, throws)
  \/ DrawBegin
  \/ DrawStep
  \/ DrawThrow
  \/ \E speed \in Speeds : MouseMoved(speed)
  \/ \E ww \in WindowWidths, wh \in WindowHeights : WindowResized(ww, wh)

Spec == Init /\ [][Next]_vars

----
\* addNoiseToFigure (lines 440-456) as a pass over a pixel buffer.  The array
\* pixels[0 .. 4*width*height - 1] is the sequence pixels with element i at
\* position i + 1; the frame specification above leaves the canvas content to
\* the rendering backend, this one starts with an arbitrary small canvas.

PixelSamples ==
  { <<3, 100, 254, 200>>, <<179, 180, 180, 128>>, <<180, 180, 180, 255>>, <<235, 225, 205, 0>> }

RECURSIVE Flatten(_)
Flatten(pxs) == IF pxs = <<>> THEN <<>> ELSE Head(pxs) \o Flatten(Tail(pxs))

\* the position of addNoiseToFigure in the frame
PixelsPos == CHOOSE k \in 1 .. Len(DrawOps) : DrawOps[k] = "pixels"

InitNoise ==
  /\ phase = "draw"
  /\ pc = PixelsPos
  /\ frameCount = 1
  /\ looping = TRUE
  /\ width \in 1 .. NoiseMaxPixels
  /\ height \in 1 .. NoiseMaxPixels
  /\ width * height <= NoiseMaxPixels
  /\ flowfield = UndefinedFlowField
  /\ globalTime = TimeOf(1)
  /\ emotionalIntensity \in IntensitySamples
  /\ distortionField = <<>>
  /\ baseDistortion = ZeroVec
  /\ depth = 0
  /\ log = {}
  /\ npc = "load"
  /\ nx = 0
  /\ ny = 0
  /\ pixels = <<>>
  /\ canvasPx \in {Flatten(pxs) : pxs \in [1 .. (width * height) -> PixelSamples]}

\* a write to a Uint8ClampedArray element: v (in 1/100) is rounded to the nearest
\* integer, ties to even, and clamped to 0 .. 255
ToUint8Clamped(v) ==
  LET q == v \div 100
      r == v % 100
      n == IF r < 50 THEN q ELSE IF r > 50 THEN q + 1 ELSE IF q % 2 = 0 THEN q ELSE q + 1
  IN  Constrain(n, 0, 255)

DarkThreshold == 180

\* brightness < 180, where brightness = (r + g + b) / 3
IsDark_Inclusive(r, g, b) == r + g + b <= 3 * DarkThreshold

IsDark(r, g, b) == r + g + b < 3 * DarkThreshold

\* random(-6, 6) * emotionalIntensity, in 1/100
NoiseAmount(rnd, intensity) == (rnd * intensity) \div 10000

\* lines 449-451
AddNoise(px, index, noiseAmount) ==
  LET p1 == [px EXCEPT ![index + 1] =
               ToUint8Clamped(Constrain(px[index + 1] * 100 + noiseAmount, 0, 25500))]
      p2 == [p1 EXCEPT ![index + 2] =
               ToUint8Clamped(Constrain(p1[index + 2] * 100 + noiseAmount, 0, 25500))]
  IN  [p2 EXCEPT ![index + 3] =
               ToUint8Clamped(Constrain(p2[index + 3] * 100 + noiseAmount, 0, 25500))]

\* loadPixels(): the canvas content is copied into pixels
LoadPixels ==
  /\ npc = "load"
  /\ pixels' = canvasPx
  /\ nx' = 0
  /\ ny' = 0
  /\ npc' = IF 0 < height THEN "loop" ELSE "update"
  /\ UNCHANGED canvasPx
  /\ UNCHANGED frameVars

\* one pass of the inner loop body (lines 444-452) and the loop increments;
\* rnd is the value random(-6, 6) returns, in 1/100
NoisePixel(rnd) ==
  /\ npc = "loop"
  /\ LET index == (nx + ny * width) * 4 IN
       pixels' = IF IsDark(pixels[index + 1], pixels[index + 2], pixels[index + 3])
                   THEN AddNoise(pixels, index, NoiseAmount(rnd, emotionalIntensity))
                   ELSE pixels
  /\ IF nx + 1 < width
       THEN nx' = nx + 1 /\ ny' = ny /\ npc' = "loop"
       ELSE nx' = 0 /\ ny' = ny + 1 /\ npc' = IF ny + 1 < height THEN "loop" ELSE "update"
  /\ UNCHANGED canvasPx
  /\ UNCHANGED frameVars

\* updatePixels(): pixels is written back to the canvas
UpdatePixels ==
  /\ npc = "update"
  /\ canvasPx' = pixels
  /\ npc' = "done"
  /\ UNCHANGED <<nx, ny, pixels>>
  /\ UNCHANGED frameVars

NextNoise ==
  \/ LoadPixels
  \/ \E rnd \in RandSamples : NoisePixel(rnd)
  \/ UpdatePixels

SpecNoise == InitNoise /\ [][NextNoise]_vars

----
\* Properties

InRange(v) == v >= 5000 /\ v <= 10000

\* a draw call has failed: one of the two messages of draw() has been logged
DrawFailed ==
  \/ "Draw cycle failed:" \in log
  \/ "Critical components not initialized" \in log

\* EmotionAt stays in [0.5, 1] over a full period of its sine
EmotionBoundedOverHorizon == \A fc \in 0 .. FrameHorizon : InRange(EmotionAt(TimeOf(fc)))

\* C1 as stated: in every reachable state, from program load on,
\* emotionalIntensity lies in [0.5, 1].
C1_Original == InRange(emotionalIntensity)

\* C1 amended: emotionalIntensity is 0 from program load until it is first
\* written; every write (mouseMoved, or draw's assignment) leaves it in
\* [0.5, 1], and once it has left 0 it lies in [0.5, 1] in every later state.
C1_IntensityInRangeOnceWritten ==
  [][ /\ (emotionalIntensity' # emotionalIntensity \/ emotionalIntensity # 0)
           => InRange(emotionalIntensity')
      /\ (emotionalIntensity = 0 \/ InRange(emotionalIntensity))
      /\ EmotionBoundedOverHorizon ]_vars

C1_Witness ==
  /\ phase = "idle"
  /\ frameCount >= 1
  /\ emotionalIntensity = 10000

\* C2: one mouseMoved call, for any speed >= 0, leaves emotionalIntensity at
\* least as large as before and at most 1, and changes nothing else
\* (globalTime, the distortion field, the flow field, the canvas dimensions).
C2_MouseMovedNudgesUpward ==
  [][ (\E speed \in Speeds : MouseMoved(speed))
        => /\ emotionalIntensity' >= emotionalIntensity
           /\ emotionalIntensity' <= 10000
           /\ UNCHANGED <<globalTime, distortionField, flowfield, width, height,
                          frameCount, looping, depth, log>> ]_vars

C2_Witness ==
  /\ phase = "idle"
  /\ frameCount >= 1
  /\ emotionalIntensity > EmotionAt(globalTime)
  /\ emotionalIntensity < 10000

\* C3: once setup has run the distortion field holds exactly 8 entries, and no
\* later step (any call of a frame, mouseMoved, windowResized) changes the number
\* of entries or any entry's frequency, amplitude, phase or speed.
C3_DistortionFieldFixed ==
  [][ /\ phase' # "load" => Len(distortionField') = 8
      /\ phase # "load" => distortionField' = distortionField ]_vars

C3_Witness ==
  /\ phase = "draw"
  /\ frameCount >= 2
  /\ Len(distortionField) = 8
  /\ baseDistortion # ZeroVec

C6_Original == phase # "load" => (width = 600 /\ height = 800)

\* C6 amended: setup creates a 600 x 800 canvas, and no call of draw and no
\* mouseMoved call changes the canvas dimensions; only windowResized does.
C6_CanvasFixedExceptByResize ==
  [][ /\ (phase = "load" /\ phase' # "load") => (width' = 600 /\ height' = 800)
      /\ (phase # "load" /\ ~(\E ww \in WindowWidths, wh \in WindowHeights : WindowResized(ww, wh)))
           => UNCHANGED <<width, height>> ]_vars

C6_Witness ==
  /\ phase = "draw"
  /\ pc = Len(DrawOps)
  /\ width = 400
  /\ height = 400

FieldFresh ==
  /\ flowfield.cols = 30
  /\ flowfield.rows = 40
  /\ Len(flowfield.field) = 1200
  /\ \A i \in 1 .. Len(flowfield.field) :
       /\ flowfield.field[i].defined
       /\ flowfield.field[i].mag = 150
       /\ flowfield.field[i].at = globalTime

\* C8: a frame calls FlowField.update exactly once, and once update has run
\* (for the rest of the frame, and after a draw that did not fail) every cell
\* of the fixed 30 x 40 grid holds a vector of magnitude particleSpeed written
\* by this frame's update, and no index outside the grid has been written.
C8_FlowFieldRegeneratedEveryFrame ==
  /\ Cardinality({k \in 1 .. Len(DrawOps) : DrawOps[k] = "update"}) = 1
  /\ (phase = "draw" /\ \E k \in 1 .. (pc - 1) : DrawOps[k] = "update") => FieldFresh
  /\ (phase = "idle" /\ frameCount >= 1 /\ ~DrawFailed) => FieldFresh

C8_Witness ==
  /\ phase = "idle"
  /\ frameCount >= 2
  /\ ~DrawFailed
  /\ FieldFresh

\* C9: from draw's assignment of lines 141-142 to the end of the frame,
\* globalTime and emotionalIntensity are the values frameCount alone determines,
\* whatever mouseMoved calls came before, and no call of the frame writes
\* emotionalIntensity again.
C9_NudgeNeverSurvivesIntoFrame ==
  [][ /\ (phase' = "draw" \/ phase = "draw")
           => /\ globalTime' = 80 * frameCount'
              /\ emotionalIntensity' = EmotionAt(80 * frameCount')
      /\ phase = "draw" => emotionalIntensity' = emotionalIntensity ]_vars

C9_Witness ==
  /\ phase = "draw"
  /\ pc = Len(DrawOps)
  /\ frameCount >= 2
  /\ emotionalIntensity = EmotionAt(80 * frameCount)
  /\ emotionalIntensity < 10000

\* C10: inside a frame the save-stack depth never falls below its value at frame
\* entry (0), and when a draw has completed without an exception the depth is
\* back at that value: every push of the frame has been matched by a pop.
C10_PushPopBalanced ==
  /\ phase = "draw" => depth >= 0
  /\ (phase = "idle" /\ ~DrawFailed) => depth = 0
  /\ (phase = "draw" /\ pc = 1) => depth = 0

C10_Witness ==
  /\ phase = "idle"
  /\ frameCount >= 1
  /\ ~DrawFailed
  /\ looping
  /\ depth = 0

\* pixel k of the buffer has been handled by the loop
Processed(k) == npc \in {"update", "done"} \/ k < nx + ny * width

\* channel c (0 .. 2) of pixel k is its loaded value plus n (1/100), clamped to [0, 255]
ChannelIsNoised(k, c, n) ==
  LET old == canvasPx[4 * k + c + 1] * 100
      new == pixels[4 * k + c + 1] * 100
      want == IF old + n < 0 THEN 0 ELSE IF old + n > 25500 THEN 25500 ELSE old + n
  IN  /\ pixels[4 * k + c + 1] \in 0 .. 255
      /\ new - want <= 50
      /\ want - new <= 50

\* C5: during and after the loop of addNoiseToFigure, every pixel whose mean of
\* R, G, B is >= 180 is as it was loaded; every handled pixel whose mean is < 180
\* has one noise amount added to R, G and B, each clamped to [0, 255]; no alpha
\* channel is changed, and pixels not yet handled are as loaded.
C5_NoiseOnlyOnDarkPixels ==
  npc \in {"loop", "update"} =>
    \A k \in 0 .. (width * height - 1) :
      LET sum == canvasPx[4 * k + 1] + canvasPx[4 * k + 2] + canvasPx[4 * k + 3]
          same == \A c \in 0 .. 3 : pixels[4 * k + c + 1] = canvasPx[4 * k + c + 1]
      IN  /\ pixels[4 * k + 4] = canvasPx[4 * k + 4]
          /\ (~Processed(k) \/ sum >= 540) => same
          /\ (Processed(k) /\ sum < 540) =>
               \E rnd \in RandSamples :
                 \A c \in 0 .. 2 :
                   ChannelIsNoised(k, c, (rnd * emotionalIntensity) \div 10000)

C5_Witness ==
  /\ npc = "update"
  /\ width = 2
  /\ height = 2
  /\ \E k \in 0 .. 3 : /\ canvasPx[4 * k + 1] = 3 /\ pixels[4 * k + 1] = 0
                       /\ canvasPx[4 * k + 3] = 254 /\ pixels[4 * k + 3] = 248
  /\ \E k \in 0 .. 3 : /\ canvasPx[4 * k + 1] = 180
                       /\ \A c \in 0 .. 3 : pixels[4 * k + c + 1] = canvasPx[4 * k + c + 1]

====
